---- MODULE Spec2Model ----
(***************************************************************************)
(* Model of tools/preprocessing/generate_config.py: generate_config reads  *)
(* configuration fragments, optionally scans dataset/train and             *)
(* dataset/valid to build the speaker maps and the per-speaker dataset     *)
(* descriptors, and saves the composite document to configs/<output>.yaml. *)
(*                                                                         *)
(* The program is sequential.  Each action is one block of the function:   *)
(* lines 23-47 (trainer, defaults, model, preprocessing), lines 49-106     *)
(* (dataset, single- or multi-speaker), lines 108-113 (scheduler,          *)
(* optimizer) and lines 115-117 (save).  `stage` is the position of the    *)
(* run between these blocks; `error` is the exception that left            *)
(* generate_config uncaught, if one did.                                   *)
(***************************************************************************)
EXTENDS Naturals, Sequences, FiniteSets

\* Longest directory listing the scans are tried on.
MaxEntries == 2

\* Names a directory entry of dataset/train or dataset/valid can have.
EntryNames == {"alice", "bob", "carol"}

\* Values of the --model, --dataset and --scheduler options.
ModelNames == {"diff_svc_v2"}
DatasetNames == {"naive_svc"}
SchedulerNames == {"warmup_cosine"}
OutputNames == {"svc_hubert_soft"}

VARIABLES
    model, dataset, scheduler, output_name, is_multi_speaker, \* the arguments
    fs,                 \* the fragment files that exist under configs/
    outfile0,           \* configs/<output_name>.yaml before the run
    yaml_input_size,    \* model fragment: {} = no speaker_encoder, {n} = its input_size
    stage,              \* position of the run
    loads,              \* paths OmegaConf.load was called on, in order
    scans,              \* split directories iterdir() was called on, in order
    train_dir, valid_dir,           \* what the scans found
    train_speaker_ids, val_speaker_ids, \* the dicts, in insertion order
    dataset_cfg,        \* config.dataset; <<>> while unset
    input_size,         \* config.model.speaker_encoder.input_size, as a set
    log,                \* logger calls, in order
    error,              \* uncaught exception that ended the run, "" if none
    outfile             \* configs/<output_name>.yaml

vars == <<model, dataset, scheduler, output_name, is_multi_speaker, fs,
          outfile0, yaml_input_size, stage, loads, scans, train_dir, valid_dir,
          train_speaker_ids, val_speaker_ids, dataset_cfg, input_size,
          log, error, outfile>>

args == <<model, dataset, scheduler, output_name, is_multi_speaker, fs,
          outfile0, yaml_input_size>>

-----------------------------------------------------------------------------
(* Files and directories *)

FragmentPath(category, name) == <<"configs", category, name>>

TrainerPath == FragmentPath("trainer", "base")

\* The fragment files a run with these arguments can ask for.
FragmentPaths(m, d, s) ==
    { TrainerPath,
      FragmentPath("model", m), FragmentPath("preprocessing", m),
      FragmentPath("dataset", d), FragmentPath("dataloader", d),
      FragmentPath("scheduler", s), FragmentPath("optimizer", s) }

\* Variant: the optimizer fragment is looked up under the model name.
ExistsOptimizerUnderModelName(path) ==
    IF path[2] = "optimizer"
    THEN <<"configs", "optimizer", model>> \in fs
    ELSE path \in fs

\* OmegaConf.load(path) raises FileNotFoundError when the file is missing.
Exists(path) == path \in fs

\* Variant: only the first load of a try block can raise.
FirstMissingChecksFirstOnly(paths) ==
    IF paths[1] \notin fs THEN 1 ELSE 0

\* Index of the first path of paths that is missing, 0 when all exist.
FirstMissing(paths) ==
    IF \E i \in 1..Len(paths) : ~Exists(paths[i])
    THEN CHOOSE i \in 1..Len(paths) :
            /\ ~Exists(paths[i])
            /\ \A j \in 1..(i - 1) : Exists(paths[j])
    ELSE 0

\* The paths a block loading paths in order calls OmegaConf.load on: up to
\* and including the first missing one.
Attempted(paths) ==
    IF FirstMissing(paths) = 0 THEN paths ELSE SubSeq(paths, 1, FirstMissing(paths))

\* A directory entry: its name and whether is_dir() holds.
Entries == [name : EntryNames, is_dir : BOOLEAN]

\* Directory listings: entries with distinct names, in iteration order.
Listings ==
    UNION { { l \in [1..n -> Entries] :
                \A i, j \in 1..n : i # j => l[i].name # l[j].name }
            : n \in 0..MaxEntries }

\* What Path(...).iterdir() finds: a listing, or the error it raises.
DirStates ==
    { [kind |-> "dir", entries |-> l] : l \in Listings }
      \cup { [kind |-> k, entries |-> <<>>] :
                k \in {"FileNotFoundError", "NotADirectoryError", "PermissionError"} }

Unread == [kind |-> "unread", entries |-> <<>>]

-----------------------------------------------------------------------------
(* Speaker maps and dataset descriptors, lines 55-94 *)

\* for i, folder in enumerate(dir.iterdir()): if folder.is_dir(): ids[folder.name] = i
\* The dict as the sequence of its items in insertion order; i counts from 0
\* over every entry.
RECURSIVE EnumerateFrom(_, _)
EnumerateFrom(listing, k) ==
    IF k > Len(listing) THEN <<>>
    ELSE IF listing[k].is_dir
         THEN <<[name |-> listing[k].name, id |-> k - 1]>> \o EnumerateFrom(listing, k + 1)
         ELSE EnumerateFrom(listing, k + 1)

SpeakerIds(listing) == EnumerateFrom(listing, 1)

Keys(ids) == { ids[i].name : i \in 1..Len(ids) }

\* ids[speaker], for speaker among the keys
Lookup(ids, speaker) == (CHOOSE i \in 1..Len(ids) : ids[i].name = speaker)

Get(ids, speaker) == ids[Lookup(ids, speaker)].id

\* train_speaker_ids[speaker], line 73
TrainSpeakerId(train_ids, speaker) == Get(train_ids, speaker)

\* Variant: the validation collection takes the validation map's own index.
ValidSpeakerIdOwn(train_ids, val_ids, speaker) == Get(val_ids, speaker)

\* Variant: validation-only speakers are numbered after the training speakers.
ValidSpeakerIdShifted(train_ids, val_ids, speaker) ==
    IF speaker \in Keys(train_ids)
    THEN Get(train_ids, speaker)
    ELSE Len(train_ids) + Get(val_ids, speaker)

\* train_speaker_ids.get(speaker, val_speaker_ids[speaker]), lines 85-87
ValidSpeakerId(train_ids, val_ids, speaker) ==
    IF speaker \in Keys(train_ids)
    THEN Get(train_ids, speaker)
    ELSE Get(val_ids, speaker)

TrainDatasets(train_ids) ==
    [i \in 1..Len(train_ids) |->
        [path |-> <<"dataset", "train", train_ids[i].name>>,
         speaker_id |-> TrainSpeakerId(train_ids, train_ids[i].name)]]

ValidDatasets(train_ids, val_ids) ==
    [i \in 1..Len(val_ids) |->
        [path |-> <<"dataset", "valid", val_ids[i].name>>,
         speaker_id |-> ValidSpeakerId(train_ids, val_ids, val_ids[i].name)]]

\* Variant: the input size is taken from the last index handed out.
SpeakerEncoderInputSizeFromLastIndex(train_ids) ==
    IF train_ids = <<>> THEN 0 ELSE train_ids[Len(train_ids)].id + 1

\* len(train_speaker_ids.keys()), line 99
SpeakerEncoderInputSize(train_ids) == Len(train_ids)

-----------------------------------------------------------------------------
(* The run *)

\* logger.error(f"Could not find model {model}, exiting."), line 46
ModelError == <<"Could not find", "model", model>>

\* str(e) of the FileNotFoundError raised for path
NoSuchFile(path) == <<"No such file or directory", path>>

\* Lines 102-105: logger.error(f"error: {e}") in a multi-speaker run,
\* logger.error(f"Could not find dataset {dataset}, exiting.") otherwise.
DatasetError(path) ==
    IF is_multi_speaker
    THEN <<"error", NoSuchFile(path)>>
    ELSE <<"Could not find", "dataset", dataset>>

\* logger.error(f"Could not find scheduler {scheduler}, exiting."), line 112
SchedulerError == <<"Could not find", "scheduler", scheduler>>

Init ==
    /\ model \in ModelNames
    /\ dataset \in DatasetNames
    /\ scheduler \in SchedulerNames
    /\ output_name \in OutputNames
    /\ is_multi_speaker \in BOOLEAN
    /\ fs \in SUBSET FragmentPaths(model, dataset, scheduler)
    /\ outfile0 \in { [state |-> "absent"], [state |-> "old"] }
    \* a model fragment without speaker_encoder, or with one whose input_size
    \* is none a scan of at most MaxEntries entries gives
    /\ yaml_input_size \in {{}, {MaxEntries + 1}}
    /\ FragmentPath("model", model) \notin fs => yaml_input_size = {}
    /\ stage = "INIT"
    /\ loads = <<>>
    /\ scans = <<>>
    /\ train_dir = Unread
    /\ valid_dir = Unread
    /\ train_speaker_ids = <<>>
    /\ val_speaker_ids = <<>>
    /\ dataset_cfg = <<>>
    /\ input_size = {}
    /\ log = <<>>
    /\ error = ""
    /\ outfile = outfile0

\* The run is between two blocks: it has neither aborted nor failed.
Running == stage \notin {"PERSISTED", "ABORTED"} /\ error = ""

\* Lines 23-47: the trainer fragment is loaded outside any try block, the
\* model and preprocessing fragments inside one.
LoadFragments ==
    /\ Running
    /\ stage = "INIT"
    /\ IF ~Exists(TrainerPath)
       THEN /\ loads' = <<TrainerPath>>
            /\ error' = "FileNotFoundError"
            /\ UNCHANGED <<stage, log, input_size>>
       ELSE LET paths == <<FragmentPath("model", model),
                           FragmentPath("preprocessing", model)>>
            IN  /\ loads' = <<TrainerPath>> \o Attempted(paths)
                /\ error' = ""
                /\ IF FirstMissing(paths) = 0
                   THEN /\ stage' = "FRAGMENTS_LOADED"
                        /\ input_size' = yaml_input_size
                        /\ log' = log
                   ELSE /\ stage' = "ABORTED"
                        /\ input_size' =
                              IF FirstMissing(paths) = 1 THEN {} ELSE yaml_input_size
                        /\ log' = Append(log, ModelError)
    /\ UNCHANGED <<args, scans, train_dir, valid_dir, train_speaker_ids,
                   val_speaker_ids, dataset_cfg, outfile>>

\* Lines 49-53 and 101-106, is_multi_speaker false.
ResolveDatasetSingle ==
    /\ Running
    /\ stage = "FRAGMENTS_LOADED"
    /\ ~is_multi_speaker
    /\ LET paths == <<FragmentPath("dataset", dataset),
                      FragmentPath("dataloader", dataset)>>
       IN  /\ loads' = loads \o Attempted(paths)
           /\ IF FirstMissing(paths) = 0
              THEN /\ stage' = "DATASET_RESOLVED"
                   /\ dataset_cfg' = <<FragmentPath("dataset", dataset)>>
                   /\ log' = log
              ELSE /\ stage' = "ABORTED"
                   /\ dataset_cfg' =
                         IF FirstMissing(paths) = 1 THEN <<>>
                         ELSE <<FragmentPath("dataset", dataset)>>
                   /\ log' = Append(log, DatasetError(paths[FirstMissing(paths)]))
    /\ UNCHANGED <<args, scans, train_dir, valid_dir, train_speaker_ids,
                   val_speaker_ids, input_size, error, outfile>>

\* How lines 101-106 end the run on the exception kind raised by iterdir():
\* only FileNotFoundError is caught.
ScanRaises(kind, path) ==
    IF kind = "FileNotFoundError"
    THEN /\ stage' = "ABORTED"
         /\ log' = Append(log, DatasetError(path))
         /\ error' = ""
    ELSE /\ stage' = stage
         /\ log' = log
         /\ error' = kind

\* Lines 54-58: the train split could not be iterated.
ScanTrainFails(td) ==
    /\ td.kind # "dir"
    /\ scans' = <<"train">>
    /\ train_dir' = td
    /\ ScanRaises(td.kind, <<"dataset", "train">>)
    /\ UNCHANGED <<valid_dir, train_speaker_ids, val_speaker_ids, dataset_cfg,
                   input_size, loads>>

\* Lines 54-62: the train split was iterated, the valid split could not be.
ScanValidFails(td, vd) ==
    /\ td.kind = "dir"
    /\ vd.kind # "dir"
    /\ scans' = <<"train", "valid">>
    /\ train_dir' = td
    /\ valid_dir' = vd
    /\ train_speaker_ids' = SpeakerIds(td.entries)
    /\ ScanRaises(vd.kind, <<"dataset", "valid">>)
    /\ UNCHANGED <<val_speaker_ids, dataset_cfg, input_size, loads>>

\* Lines 54-99: both splits were iterated; the descriptors are built, the
\* dataloader fragment is loaded and the speaker encoder is resized.
ScanBoth(td, vd) ==
    /\ td.kind = "dir"
    /\ vd.kind = "dir"
    /\ scans' = <<"train", "valid">>
    /\ train_dir' = td
    /\ valid_dir' = vd
    /\ train_speaker_ids' = SpeakerIds(td.entries)
    /\ val_speaker_ids' = SpeakerIds(vd.entries)
    /\ dataset_cfg' =
          <<[train |-> TrainDatasets(SpeakerIds(td.entries)),
             valid |-> ValidDatasets(SpeakerIds(td.entries), SpeakerIds(vd.entries))]>>
    /\ loads' = Append(loads, FragmentPath("dataloader", dataset))
    /\ IF ~Exists(FragmentPath("dataloader", dataset))
       THEN /\ stage' = "ABORTED"
            /\ log' = Append(log, DatasetError(FragmentPath("dataloader", dataset)))
            /\ error' = ""
            /\ input_size' = input_size
       ELSE IF input_size = {}
       THEN \* config.model.speaker_encoder is missing: not a FileNotFoundError
            /\ stage' = stage
            /\ log' = log
            /\ error' = "AttributeError"
            /\ input_size' = input_size
       ELSE /\ stage' = "DATASET_RESOLVED"
            /\ log' = log
            /\ error' = ""
            /\ input_size' = {SpeakerEncoderInputSize(SpeakerIds(td.entries))}

\* Lines 49, 54-106, is_multi_speaker true.  The listings are what iterdir()
\* yields when the run reaches the scans.
ResolveDatasetMulti ==
    /\ Running
    /\ stage = "FRAGMENTS_LOADED"
    /\ is_multi_speaker
    /\ \E td \in DirStates :
          \/ ScanTrainFails(td)
          \/ \E vd \in DirStates :
                \/ ScanValidFails(td, vd)
                \/ ScanBoth(td, vd)
    /\ UNCHANGED <<args, outfile>>

\* Lines 108-113.
ResolveScheduler ==
    /\ Running
    /\ stage = "DATASET_RESOLVED"
    /\ LET paths == <<FragmentPath("scheduler", scheduler),
                      FragmentPath("optimizer", scheduler)>>
       IN  /\ loads' = loads \o Attempted(paths)
           /\ IF FirstMissing(paths) = 0
              THEN /\ stage' = "SCHEDULER_RESOLVED"
                   /\ log' = log
              ELSE /\ stage' = "ABORTED"
                   /\ log' = Append(log, SchedulerError)
    /\ UNCHANGED <<args, scans, train_dir, valid_dir, train_speaker_ids,
                   val_speaker_ids, dataset_cfg, input_size, error, outfile>>

\* The composite document, as far as it depends on the run.
Document ==
    [state |-> "written",
     loaded |-> loads,
     dataset |-> dataset_cfg,
     input_size |-> input_size]

\* Variant: the document is saved before the scheduler block as well.
PersistBeforeScheduler ==
    /\ Running
    /\ stage \in {"DATASET_RESOLVED", "SCHEDULER_RESOLVED"}
    /\ outfile' = Document
    /\ log' = Append(log, <<"Saved configuration to", output_name>>)
    /\ stage' = "PERSISTED"
    /\ UNCHANGED <<args, loads, scans, train_dir, valid_dir, train_speaker_ids,
                   val_speaker_ids, dataset_cfg, input_size, error>>

\* Lines 115-117.
Persist ==
    /\ Running
    /\ stage = "SCHEDULER_RESOLVED"
    /\ outfile' = Document
    /\ log' = Append(log, <<"Saved configuration to", output_name>>)
    /\ stage' = "PERSISTED"
    /\ UNCHANGED <<args, loads, scans, train_dir, valid_dir, train_speaker_ids,
                   val_speaker_ids, dataset_cfg, input_size, error>>

Next ==
    \/ LoadFragments
    \/ ResolveDatasetSingle
    \/ ResolveDatasetMulti
    \/ ResolveScheduler
    \/ Persist

Spec == Init /\ [][Next]_vars

\* The runs that find the trainer fragment and every fragment they load.
ReadyInit ==
    /\ Init
    /\ TrainerPath \in fs
    /\ \A p \in FragmentPaths(model, dataset, scheduler) :
          p \in fs \/ (is_multi_speaker /\ p = FragmentPath("dataset", dataset))

\* generate_config runs to its end: it is sequential and no step waits on
\* anything, so a block that can run does run.
FairSpec == ReadyInit /\ [][Next]_vars /\ WF_vars(Next)

-----------------------------------------------------------------------------
(* Properties *)

\* The fragment file is there, read off the file system itself.
Present(path) == path \in fs

\* The run is over.
Terminal == stage \in {"PERSISTED", "ABORTED"} \/ error # ""

Written == outfile.state = "written"

\* The subdirectories of a scanned split, counted on the listing itself.
DirPositions(d) == { i \in 1..Len(d.entries) : d.entries[i].is_dir }

NumDirs(d) == Cardinality(DirPositions(d))

Ids(ids) == { ids[i].id : i \in 1..Len(ids) }

\* The speaker map of a scanned split has one entry per subdirectory and its
\* indices are 0 .. N-1 without duplicates.
EnumeratedContiguously(d, ids) ==
    /\ Len(ids) = NumDirs(d)
    /\ Keys(ids) = { d.entries[i].name : i \in DirPositions(d) }
    /\ Cardinality(Ids(ids)) = Len(ids)
    /\ Ids(ids) = { i - 1 : i \in 1..NumDirs(d) }

TrainMapBuilt == train_dir.kind = "dir"

ValidMapBuilt == train_dir.kind = "dir" /\ valid_dir.kind = "dir"

\* C1: for any contents of a split directory with exactly N subdirectories,
\* the speaker map built from it has exactly N entries and its index values
\* are exactly {0, ..., N-1}, without duplicates.
C1_SpeakerIndicesAreZeroToN ==
    /\ TrainMapBuilt => EnumeratedContiguously(train_dir, train_speaker_ids)
    /\ ValidMapBuilt => EnumeratedContiguously(valid_dir, val_speaker_ids)

\* The descriptors of a collection for one speaker name.
DescriptorsOf(datasets, split, speaker) ==
    { i \in 1..Len(datasets) : datasets[i].path = <<"dataset", split, speaker>> }

\* The collection holds exactly one descriptor per name of ids.
OnePerName(datasets, split, ids) ==
    /\ Len(datasets) = Len(ids)
    /\ \A i \in 1..Len(ids) :
          Cardinality(DescriptorsOf(datasets, split, ids[i].name)) = 1

DatasetBuilt == is_multi_speaker /\ dataset_cfg # <<>>

\* C2: in a multi-speaker run the training collection has exactly one
\* descriptor per name of the training map, carrying the training map's index;
\* the validation collection has exactly one descriptor per name of the
\* validation map, carrying the training map's index when the name is in the
\* training map and the validation map's own index otherwise; a name in both
\* splits carries the same index in both collections.
C2_DescriptorIndexRule ==
    DatasetBuilt =>
        LET train == dataset_cfg[1].train
            valid == dataset_cfg[1].valid
        IN  /\ OnePerName(train, "train", train_speaker_ids)
            /\ OnePerName(valid, "valid", val_speaker_ids)
            /\ \A t \in 1..Len(train_speaker_ids) :
                  \A i \in DescriptorsOf(train, "train", train_speaker_ids[t].name) :
                      train[i].speaker_id = train_speaker_ids[t].id
            /\ \A v \in 1..Len(val_speaker_ids) :
                  \A i \in DescriptorsOf(valid, "valid", val_speaker_ids[v].name) :
                      /\ \A t \in 1..Len(train_speaker_ids) :
                            train_speaker_ids[t].name = val_speaker_ids[v].name
                                => valid[i].speaker_id = train_speaker_ids[t].id
                      /\ val_speaker_ids[v].name \notin Keys(train_speaker_ids)
                            => valid[i].speaker_id = val_speaker_ids[v].id
            /\ \A i \in 1..Len(train), j \in 1..Len(valid) :
                  train[i].path[3] = valid[j].path[3]
                      => train[i].speaker_id = valid[j].speaker_id

\* A name in both splits whose two enumeration indices differ, and a
\* validation-only name beside it.
C2_Witness ==
    /\ DatasetBuilt
    /\ stage = "PERSISTED"
    /\ \E t \in 1..Len(train_speaker_ids), v \in 1..Len(val_speaker_ids) :
          /\ train_speaker_ids[t].name = val_speaker_ids[v].name
          /\ train_speaker_ids[t].id # val_speaker_ids[v].id
    /\ \E v \in 1..Len(val_speaker_ids) :
          val_speaker_ids[v].name \notin Keys(train_speaker_ids)

\* C6: after a multi-speaker run that reaches PERSISTED with N subdirectories
\* under dataset/train, model.speaker_encoder.input_size of the written
\* document is exactly N, whatever the validation split holds and whatever
\* non-directory entries either split holds; the field keeps the model
\* fragment's value until the training map is built and has the new value
\* before the document is written.
C6_InputSizeIsTrainSpeakerCount ==
    is_multi_speaker =>
        /\ stage \in {"DATASET_RESOLVED", "SCHEDULER_RESOLVED", "PERSISTED"}
              => /\ TrainMapBuilt
                 /\ input_size = {NumDirs(train_dir)}
        /\ stage = "PERSISTED"
              => /\ Written
                 /\ outfile.input_size = {NumDirs(train_dir)}
        /\ ~TrainMapBuilt => input_size \in {{}, yaml_input_size}
        /\ Written => stage = "PERSISTED"

\* A persisted multi-speaker run whose train split mixes files and
\* directories, whose valid split has another number of directories, and
\* whose model fragment came with another input_size.
C6_Witness ==
    /\ is_multi_speaker
    /\ stage = "PERSISTED"
    /\ NumDirs(train_dir) > 0
    /\ NumDirs(train_dir) < Len(train_dir.entries)
    /\ NumDirs(train_dir) # NumDirs(valid_dir)
    /\ yaml_input_size # {NumDirs(train_dir)}
    /\ outfile.input_size = {NumDirs(train_dir)}

\* The validation-only speakers: descriptor positions of the validation
\* collection whose name is no subdirectory of dataset/train.
ValidOnly(i) ==
    \A k \in DirPositions(train_dir) :
        train_dir.entries[k].name # dataset_cfg[1].valid[i].path[3]

\* C9: a speaker present only in the validation split receives its
\* validation-local enumeration index (its position in the listing of
\* dataset/valid, counted from 0) unchanged, whatever indices the training
\* map holds.
C9_ValidOnlyKeepsLocalIndex ==
    DatasetBuilt =>
        \A i \in 1..Len(dataset_cfg[1].valid) :
            ValidOnly(i) =>
                \E k \in DirPositions(valid_dir) :
                    /\ valid_dir.entries[k].name = dataset_cfg[1].valid[i].path[3]
                    /\ dataset_cfg[1].valid[i].speaker_id = k - 1

\* C9, its consequence: a persisted multi-speaker run whose validation
\* collection gives one speaker index to two different names, one of them
\* validation-only and one shared with training.
C9_Witness ==
    /\ DatasetBuilt
    /\ stage = "PERSISTED"
    /\ Written
    /\ \E i, j \in 1..Len(outfile.dataset[1].valid) :
          /\ i # j
          /\ outfile.dataset[1].valid[i].path # outfile.dataset[1].valid[j].path
          /\ outfile.dataset[1].valid[i].speaker_id = outfile.dataset[1].valid[j].speaker_id
          /\ ValidOnly(i)
          /\ ~ValidOnly(j)

\* C10: after a multi-speaker run that reaches PERSISTED every speaker_id of
\* the training collection is a row of the speaker embedding:
\* 0 <= speaker_id < model.speaker_encoder.input_size.
C10_TrainIdsWithinEmbedding ==
    (is_multi_speaker /\ stage = "PERSISTED") =>
        \A i \in 1..Len(outfile.dataset[1].train) :
            \A n \in outfile.input_size :
                /\ 0 <= outfile.dataset[1].train[i].speaker_id
                /\ outfile.dataset[1].train[i].speaker_id < n

-----------------------------------------------------------------------------
(* Error paths *)

\* The six fragments named by the arguments.
SixPaths == FragmentPaths(model, dataset, scheduler) \ {TrainerPath}

MissingSix == { p \in SixPaths : ~Present(p) }

\* The fragments a run of this mode loads after the trainer fragment: the
\* dataset fragment is synthesized, not loaded, in a multi-speaker run.
LoadedPaths ==
    IF is_multi_speaker
    THEN SixPaths \ {FragmentPath("dataset", dataset)}
    ELSE SixPaths

MissingLoaded == { p \in LoadedPaths : ~Present(p) }

ModelMissing == ~Present(FragmentPath("model", model))

\* The message names a fragment category and the requested name.
Names(msg, category, name) ==
    \/ msg = <<"Could not find", category, name>>
    \/ msg = <<"error", <<"No such file or directory", <<"configs", category, name>>>>>>

\* C3: for any nonexistent model name, in either mode and whatever else the
\* run is given, the run ends ABORTED with a logged message containing the
\* model name and configs/<output>.yaml is left as it was.
C3_ModelMissingAborts ==
    ModelMissing =>
        /\ outfile = outfile0
        /\ Terminal =>
              /\ stage = "ABORTED"
              /\ \E i \in 1..Len(log) : log[i] = <<"Could not find", "model", model>>

\* C4, as stated: whenever the fragment of one of the six categories is
\* missing, in either mode, the run ends ABORTED without writing the output
\* document and the logged error names the category of a missing fragment
\* and the requested name.  Stated for the runs that find the trainer
\* fragment, which all get to the loads of the six categories.
C4_Original ==
    (Present(TrainerPath) /\ MissingSix # {}) =>
        /\ outfile = outfile0
        /\ Terminal =>
              /\ stage = "ABORTED"
              /\ \E i \in 1..Len(log) : \E p \in MissingSix : Names(log[i], p[2], p[3])

\* What the run logs when loading path raised FileNotFoundError.
ReportOf(path) ==
    CASE path[2] \in {"model", "preprocessing"}
            -> <<"Could not find", "model", model>>
      [] path[2] \in {"dataset", "dataloader"}
            -> IF is_multi_speaker
               THEN <<"error", <<"No such file or directory", path>>>>
               ELSE <<"Could not find", "dataset", dataset>>
      [] path[2] \in {"scheduler", "optimizer"}
            -> <<"Could not find", "scheduler", scheduler>>

\* C4, amended: whenever a fragment the run loads is missing (model,
\* preprocessing, dataloader, scheduler or optimizer in either mode, dataset
\* in single-speaker mode only) the run never reaches PERSISTED and never
\* writes the output document; when it ends ABORTED on a missing fragment the
\* one logged error is "Could not find model <model>" for model and
\* preprocessing, "Could not find dataset <dataset>" for dataset and
\* dataloader in single-speaker mode, the underlying error with the path for
\* the dataloader in multi-speaker mode, and "Could not find scheduler
\* <scheduler>" for scheduler and optimizer.
C4_MissingLoadedFragmentIsFatal ==
    MissingLoaded # {} =>
        /\ outfile = outfile0
        /\ stage # "PERSISTED"
        /\ (stage = "ABORTED" /\ ~Present(loads[Len(loads)]))
              => log = << ReportOf(loads[Len(loads)]) >>

\* A multi-speaker run aborted on the optimizer fragment, the last load.
C4_Witness ==
    /\ is_multi_speaker
    /\ stage = "ABORTED"
    /\ MissingLoaded = {FragmentPath("optimizer", scheduler)}
    /\ loads[Len(loads)] = FragmentPath("optimizer", scheduler)
    /\ log = << <<"Could not find", "scheduler", scheduler>> >>
    /\ outfile = outfile0

ScanFailed ==
    \/ train_dir.kind \notin {"dir", "unread"}
    \/ valid_dir.kind \notin {"dir", "unread"}

C7_ResolutionErrorsAbort ==
    (is_multi_speaker /\ (ScanFailed \/ error = "AttributeError")) =>
        /\ stage = "ABORTED"
        /\ error = ""
        /\ \E i \in 1..Len(log) : log[i][1] = "error"
        /\ outfile = outfile0

-----------------------------------------------------------------------------
(* Stage order *)

StageOrder ==
    { <<"INIT", "FRAGMENTS_LOADED">>,
      <<"FRAGMENTS_LOADED", "DATASET_RESOLVED">>,
      <<"DATASET_RESOLVED", "SCHEDULER_RESOLVED">>,
      <<"SCHEDULER_RESOLVED", "PERSISTED">> }

Loaded(path) == \E i \in 1..Len(loads) : loads[i] = path

C8_Step ==
    \* ABORTED and PERSISTED are terminal, and so is an uncaught failure
    /\ stage \notin {"ABORTED", "PERSISTED"}
    /\ error = ""
    \* a step enters the next stage, aborts, or fails at its stage
    /\ stage' # stage =>
          \/ <<stage, stage'>> \in StageOrder
          \/ stage' = "ABORTED" /\ stage \in {"INIT", "FRAGMENTS_LOADED", "DATASET_RESOLVED"}
    /\ stage' = stage => error' # ""
    \* the document is written once, on entering PERSISTED
    /\ (outfile' # outfile \/ stage' = "PERSISTED") =>
          /\ stage = "SCHEDULER_RESOLVED"
          /\ stage' = "PERSISTED"
          /\ ~Written
          /\ Written'
          /\ Loaded(FragmentPath("scheduler", scheduler))
          /\ Loaded(FragmentPath("optimizer", scheduler))
    \* ABORTED is entered by the first load or scan that fails
    /\ stage' = "ABORTED" =>
          /\ \A i \in 1..(Len(loads') - 1) : Present(loads'[i])
          /\ \/ loads' # loads /\ ~Present(loads'[Len(loads')])
             \/ /\ scans' # scans
                /\ "FileNotFoundError" \in {train_dir'.kind, valid_dir'.kind}
    /\ (stage' # "ABORTED" /\ error' = "") =>
          \A i \in 1..Len(loads') : Present(loads'[i])

\* C8: every run passes the stages in the order INIT, FRAGMENTS_LOADED,
\* DATASET_RESOLVED, SCHEDULER_RESOLVED, PERSISTED, none skipped or repeated;
\* the output document is written at most once, only on entering PERSISTED
\* and after the scheduler and optimizer fragments were loaded; ABORTED is
\* terminal, entered at the first failing load step, and no load, scan or
\* write follows it.
C8_StageOrdering == [][C8_Step]_vars

\* A persisted multi-speaker run: every load and both scans done.
C8_Witness ==
    /\ stage = "PERSISTED"
    /\ is_multi_speaker
    /\ scans = <<"train", "valid">>
    /\ Loaded(FragmentPath("optimizer", scheduler))
    /\ Written

====
